---------------------------- MODULE Spec2Model ----------------------------
(***************************************************************************)
(* Model of zbiljic/sicc: the versioned configuration store (in-memory,    *)
(* null and SSM backends) and the environment materialization engine       *)
(* (package environ).                                                      *)
(*                                                                         *)
(* Strings are sequences of one-character strings, so that prefix tests,   *)
(* upper-casing, replacement and decimal formatting/parsing are computed   *)
(* as the Go code computes them.  A Go *string is a sequence of length 0   *)
(* (nil) or 1 (the pointed-to string).                                     *)
(***************************************************************************)
EXTENDS Integers, Sequences, FiniteSets, TLC

VARIABLES
    backend,      \* which Store implementation the run drives: "ssm", "memory", "null"
    ssm,          \* the parameter service: full key -> history (oldest first), <<>> = absent
    mem,          \* MemoryStore.m: key -> <<>> (absent) or <<Value>>
    last,         \* the last Store operation: its arguments, its result, the service calls it made
    puts,         \* per key, the values of the successful Puts since the key was (re)created
    deleted,      \* keys deleted successfully and not written since
    e,            \* the Environ being built
    seed,         \* the Environ the load started from
    prefixPaths,  \* the ordered prefix list given to the load
    pristine,     \* LoadStrict's pristine argument
    mode,         \* "store" (no load in this run), "strict" or "permissive"
    pc,           \* "run" while prefixes remain, "done" when the load returned
    idx,          \* number of prefixes whose processing has been started
    err,          \* the error the load returned (NoErr while none)
    collisions,   \* Load's collision list
    listRawCalls, \* number of ListRaw calls issued by the load
    added,        \* names substituted from the store so far in this load
    call,         \* the last call of an Environ primitive: its arguments and result
    clients       \* per client process, how far its SSMStore.Put has got

vars == <<backend, ssm, mem, last, puts, deleted, e, seed, prefixPaths, pristine,
          mode, pc, idx, err, collisions, listRawCalls, added, call, clients>>

storeVars == <<backend, ssm, mem, last, puts, deleted, clients>>
envVars == <<e, seed, prefixPaths, pristine, mode, pc, idx, err, collisions,
             listRawCalls, added, call>>

(***************************************************************************)
(* Bounds                                                                  *)
(***************************************************************************)
\* longest history a key may reach before Put is no longer offered
MaxHist == 3
\* entries the service returns per history page
PageSize == 2

(***************************************************************************)
(* Strings                                                                 *)
(***************************************************************************)
Some(x) == <<x>>
None == <<>>

HasPrefix(s, p) == Len(s) >= Len(p) /\ SubSeq(s, 1, Len(p)) = p

TrimPrefix(s, p) == IF HasPrefix(s, p) THEN SubSeq(s, Len(p) + 1, Len(s)) ELSE s

Digits == <<"0", "1", "2", "3", "4", "5", "6", "7", "8", "9">>

IsDigit(c) == \E i \in 1..10 : Digits[i] = c

DigitVal(c) == (CHOOSE i \in 1..10 : Digits[i] = c) - 1

RECURSIVE ItoaNat(_)
ItoaNat(n) == IF n < 10 THEN <<Digits[n + 1]>>
              ELSE ItoaNat(n \div 10) \o <<Digits[(n % 10) + 1]>>

\* strconv.Itoa
Itoa(n) == IF n < 0 THEN <<"-">> \o ItoaNat(-n) ELSE ItoaNat(n)

RECURSIVE ParseNat(_, _)
ParseNat(s, acc) == IF s = <<>> THEN acc
                    ELSE ParseNat(Tail(s), 10 * acc + DigitVal(Head(s)))

\* strconv.Atoi with its error dropped (thisVersion, _ = strconv.Atoi(..)):
\* 0 unless s is an optional sign followed by one or more decimal digits.
Atoi(s) ==
    LET signed == s # <<>> /\ Head(s) \in {"+", "-"}
        body == IF signed THEN Tail(s) ELSE s
    IN  IF body = <<>> \/ \E i \in 1..Len(body) : ~IsDigit(body[i]) THEN 0
        ELSE IF signed /\ Head(s) = "-" THEN -ParseNat(body, 0)
        ELSE ParseNat(body, 0)

\* index of the last "/" of s, 0 when there is none
LastSlash(s) == IF \E i \in 1..Len(s) : s[i] = "/"
                THEN CHOOSE i \in 1..Len(s) : s[i] = "/" /\ \A j \in (i + 1)..Len(s) : s[j] # "/"
                ELSE 0

\* path.Dir on a cleaned path
PathDir(s) == LET i == LastSlash(s)
              IN  IF i = 0 THEN <<".">> ELSE IF i = 1 THEN <<"/">> ELSE SubSeq(s, 1, i - 1)

RECURSIVE SquashSlashes(_)
SquashSlashes(s) ==
    IF Len(s) < 2 THEN s
    ELSE IF s[1] = "/" /\ s[2] = "/" THEN SquashSlashes(Tail(s))
    ELSE <<Head(s)>> \o SquashSlashes(Tail(s))

\* path.Clean restricted to paths without "." and ".." elements: repeated
\* slashes collapse and a trailing slash is dropped (the root stays "/").
PathClean(s) ==
    LET t == SquashSlashes(s)
    IN  IF t = <<>> THEN <<".">>
        ELSE IF Len(t) > 1 /\ t[Len(t)] = "/" THEN SubSeq(t, 1, Len(t) - 1)
        ELSE t

RECURSIVE JoinNonEmpty(_)
JoinNonEmpty(elems) ==
    IF elems = <<>> THEN <<>>
    ELSE IF Head(elems) = <<>> THEN JoinNonEmpty(Tail(elems))
    ELSE LET rest == JoinNonEmpty(Tail(elems))
         IN  IF rest = <<>> THEN Head(elems) ELSE Head(elems) \o <<"/">> \o rest

\* path.Join: empty elements are ignored, the rest joined by "/" and cleaned
PathJoin(elems) == LET j == JoinNonEmpty(elems)
                   IN  IF j = <<>> THEN <<>> ELSE PathClean(j)

(***************************************************************************)
(* Store: data and errors                                                  *)
(***************************************************************************)
NoErr == "nil"
ErrConfigNotFound == "config not found"
ErrNotImplemented == "not implemented for Null store"
\* any error the service or the transport returns
ErrService == "service error"

\* the ParameterNames the callers of this model use: runPut splits a cleaned
\* path with path.Split, so ParameterPath keeps its trailing slash
Names == { [ParameterPath |-> <<"/", "t", "/">>, Name |-> <<"a">>],
           [ParameterPath |-> <<"/", "t", "/">>, Name |-> <<"b">>] }

Values == { <<"x">>, <<"y">> }

\* Meta.Version as the callers pass it to Put: runPut and runImport build the
\* Value without a version
CallerVersions == {0}

Metadata(key, description, version) ==
    [Key |-> key, Description |-> description, Version |-> version]

\* the zero Value{}
ZeroValue == [Value |-> None, Meta |-> Metadata(<<>>, <<>>, 0)]

PutValues == { [Value |-> Some(v), Meta |-> Metadata(<<>>, <<>>, n)] :
               v \in Values, n \in CallerVersions }

\* the other ParameterNames the delete command builds with
\* parameterNameFromPath: of the path /t, and of the empty key of an entry
\* listed by the MemoryStore
CommandNames == { [ParameterPath |-> <<"/">>, Name |-> <<"t">>],
                  [ParameterPath |-> <<>>, Name |-> <<>>] }

\* SSMStore.parameterNameToString, computed once for the names in use
SSMKeyOf == [n \in Names \cup CommandNames |-> PathJoin(<<<<"/">>, n.ParameterPath, n.Name>>)]
parameterNameToString(name) == SSMKeyOf[name]

\* MemoryStore's key := path.Join(name.ParameterPath, name.Name), likewise
MemoryKeyOf == [n \in Names \cup CommandNames |-> PathJoin(<<n.ParameterPath, n.Name>>)]
memoryKey(name) == MemoryKeyOf[name]

Keys == { parameterNameToString(n) : n \in Names } \cup { memoryKey(n) : n \in Names }

Ret(er, val, calls) == [err |-> er, val |-> val, calls |-> calls]


(***************************************************************************)
(* The parameter service behind SSMStore (aws-sdk-go's ssmiface.SSMAPI).   *)
(* A parameter is its history, oldest entry first; the last entry is the   *)
(* current one.  PutParameter with Overwrite appends an entry,             *)
(* DeleteParameter removes the parameter with its whole history.           *)
(* `fault` names the one service call that fails in an operation ("none":  *)
(* every call is answered).                                                *)
(***************************************************************************)
Faults == {"none", "GetParameters", "DescribeParameters", "PutParameter",
           "DeleteParameter", "GetParameterHistory"}

HistoryEntry(name, value, description) ==
    [Name |-> name, Value |-> value, Description |-> description]

Current(svc, k) == svc[k][Len(svc[k])]

Min(S) == CHOOSE x \in S : \A y \in S : x <= y

Range(f) == { f[i] : i \in DOMAIN f }

\* the run-time panic of a nil pointer dereference, which ends the process
\* instead of returning
Panic == "panic: invalid memory address or nil pointer dereference"

\* parameterMetaToValueMeta: the version is parsed from the description.  The
\* function dereferences p.Description: its callers panic when that is nil.
parameterMetaToValueMeta(p) ==
    Metadata(p.Name,
             IF p.Description = None THEN <<>> ELSE p.Description[1],
             IF p.Description = None THEN 0 ELSE Atoi(p.Description[1]))

\* SSMStore.getLatest
getLatest(svc, k, fault) ==
    IF fault = "GetParameters" THEN Ret(ErrService, ZeroValue, <<"GetParameters">>)
    ELSE IF svc[k] = <<>> THEN Ret(ErrConfigNotFound, ZeroValue, <<"GetParameters">>)
    ELSE IF fault = "DescribeParameters"
    THEN Ret(ErrService, ZeroValue, <<"GetParameters", "DescribeParameters">>)
    ELSE LET dir == PathDir(k)
             oneLevel == { n \in DOMAIN svc : svc[n] # <<>> /\ PathDir(n) = dir }
         IN  IF k \notin oneLevel
             THEN Ret(ErrConfigNotFound, ZeroValue, <<"GetParameters", "DescribeParameters">>)
             ELSE IF Current(svc, k).Description = None
             THEN Ret(Panic, ZeroValue, <<"GetParameters", "DescribeParameters">>)
             ELSE Ret(NoErr,
                      [Value |-> Current(svc, k).Value,
                       Meta |-> parameterMetaToValueMeta(Current(svc, k))],
                      <<"GetParameters", "DescribeParameters">>)

\* the callback's thisVersion for one history entry
thisVersion(history) ==
    IF history.Description = None THEN 0 ELSE Atoi(history.Description[1])

\* GetParameterHistoryPages with getVersion's callback, from the page that
\* starts at entry i: the first matching entry (None when the history is
\* exhausted) and the number of pages requested.
historyPagesFirstOnly(hist, version, i) ==
    LET hi == IF i + PageSize - 1 < Len(hist) THEN i + PageSize - 1 ELSE Len(hist)
        hits == { j \in i..hi : thisVersion(hist[j]) = version }
    IN  IF hits # {} THEN [result |-> Some(hist[Min(hits)]), pages |-> 1]
        ELSE [result |-> None, pages |-> 1]
RECURSIVE historyPages(_, _, _)
historyPages(hist, version, i) ==
    LET hi == IF i + PageSize - 1 < Len(hist) THEN i + PageSize - 1 ELSE Len(hist)
        hits == { j \in i..hi : thisVersion(hist[j]) = version }
    IN  IF hits # {} THEN [result |-> Some(hist[Min(hits)]), pages |-> 1]
        ELSE IF hi >= Len(hist) THEN [result |-> None, pages |-> 1]
        ELSE LET r == historyPages(hist, version, hi + 1)
             IN  [result |-> r.result, pages |-> r.pages + 1]

\* SSMStore.getVersion: every error of the paging, the service's
\* ParameterNotFound included, is returned as ErrConfigNotFound; the matching
\* entry's Description is dereferenced when the result is built
getVersion(svc, k, version, fault) ==
    IF fault = "GetParameterHistory" \/ svc[k] = <<>>
    THEN Ret(ErrConfigNotFound, ZeroValue, <<"GetParameterHistory">>)
    ELSE LET r == historyPages(svc[k], version, 1)
             calls == [i \in 1..r.pages |-> "GetParameterHistory"]
         IN  IF r.result # None /\ r.result[1].Description = None
             THEN Ret(Panic, ZeroValue, calls)
             ELSE IF r.result # None /\ r.result[1].Value # None
             THEN Ret(NoErr,
                      [Value |-> r.result[1].Value,
                       Meta |-> Metadata(r.result[1].Name, r.result[1].Description[1],
                                         thisVersion(r.result[1]))],
                      calls)
             ELSE Ret(ErrConfigNotFound, ZeroValue, calls)

\* SSMStore.Get
SSMGet(svc, name, version, fault) ==
    IF version = -1 THEN getLatest(svc, parameterNameToString(name), fault)
    ELSE getVersion(svc, parameterNameToString(name), version, fault)

PutRet(svc, er, calls) == [svc |-> svc, err |-> er, calls |-> calls]

\* the version SSMStore.Put writes, from its read of the latest value
PutVersionBroken(current) == IF current.err = NoErr THEN current.val.Meta.Version ELSE 1
PutVersion(current) == IF current.err = NoErr THEN current.val.Meta.Version + 1 ELSE 1

\* SSMStore.Put.  PutParameter rejects a request without a value.
SSMPut(svc, name, value, fault) ==
    LET k == parameterNameToString(name)
        current == getLatest(svc, k, fault)
    IN  IF current.err \notin {NoErr, ErrConfigNotFound}
        THEN PutRet(svc, current.err, current.calls)
        ELSE IF fault = "PutParameter" \/ value.Value = None
        THEN PutRet(svc, ErrService, Append(current.calls, "PutParameter"))
        ELSE PutRet([svc EXCEPT ![k] = Append(@, HistoryEntry(k, value.Value,
                                                   Some(Itoa(PutVersion(current)))))],
                    NoErr, Append(current.calls, "PutParameter"))

\* the service's DeleteParameter: the parameter and its history are gone
DeleteParameterKeepsHistory(svc, k) == svc
DeleteParameter(svc, k) == [svc EXCEPT ![k] = <<>>]

\* SSMStore.Delete
SSMDeleteNoCheck(svc, name, fault) ==
    LET k == parameterNameToString(name)
    IN  IF fault = "DeleteParameter" THEN PutRet(svc, ErrService, <<"DeleteParameter">>)
        ELSE PutRet(DeleteParameter(svc, k), NoErr, <<"DeleteParameter">>)
SSMDelete(svc, name, fault) ==
    LET k == parameterNameToString(name)
        current == getLatest(svc, k, fault)
    IN  IF current.err # NoErr THEN PutRet(svc, current.err, current.calls)
        ELSE IF fault = "DeleteParameter"
        THEN PutRet(svc, ErrService, Append(current.calls, "DeleteParameter"))
        ELSE PutRet(DeleteParameter(svc, k), NoErr, Append(current.calls, "DeleteParameter"))

(***************************************************************************)
(* MemoryStore                                                             *)
(***************************************************************************)
\* MemoryStore.Put: the caller's Value is stored as it is
MemoryPut(m, name, value) ==
    PutRet([m EXCEPT ![memoryKey(name)] = Some(value)], NoErr, <<>>)

\* MemoryStore.Get: the version argument is not looked at
MemoryGet(m, name, version) ==
    IF m[memoryKey(name)] # None THEN Ret(NoErr, m[memoryKey(name)][1], <<>>)
    ELSE Ret(ErrConfigNotFound, ZeroValue, <<>>)

\* MemoryStore.Delete: no error when the key is absent
MemoryDelete(m, name) ==
    PutRet([m EXCEPT ![memoryKey(name)] = None], NoErr, <<>>)

(***************************************************************************)
(* The Store interface, dispatched on the backend of the run               *)
(***************************************************************************)
StoreGet(b, svc, m, name, version, fault) ==
    IF b = "ssm" THEN SSMGet(svc, name, version, fault)
    ELSE IF b = "memory" THEN MemoryGet(m, name, version)
    ELSE Ret(ErrNotImplemented, ZeroValue, <<>>)

\* the contents of the backend in use
Content(b, svc, m) == IF b = "ssm" THEN svc ELSE m

StorePut(b, svc, m, name, value, fault) ==
    IF b = "ssm" THEN SSMPut(svc, name, value, fault)
    ELSE IF b = "memory" THEN MemoryPut(m, name, value)
    ELSE PutRet(m, ErrNotImplemented, <<>>)

StoreDelete(b, svc, m, name, fault) ==
    IF b = "ssm" THEN SSMDelete(svc, name, fault)
    ELSE IF b = "memory" THEN MemoryDelete(m, name)
    ELSE PutRet(m, ErrNotImplemented, <<>>)

storeKey(b, name) == IF b = "ssm" THEN parameterNameToString(name) ELSE memoryKey(name)

\* versions a caller asks Get for
GetVersions == {-1} \cup (0..(MaxHist + 1))

OpFaults(b, op, version) ==
    IF b # "ssm" THEN {"none"}
    ELSE IF op = "Put" THEN {"none", "GetParameters", "DescribeParameters", "PutParameter"}
    ELSE IF op = "Delete" THEN {"none", "GetParameters", "DescribeParameters", "DeleteParameter"}
    ELSE IF version = -1 THEN {"none", "GetParameters", "DescribeParameters"}
    ELSE {"none", "GetParameterHistory"}

LastOp(op, name, version, value, fault, before, er, val, calls) ==
    [op |-> op, name |-> name, version |-> version, value |-> value, fault |-> fault,
     before |-> before, err |-> er, val |-> val, calls |-> calls]

NoOp == LastOp("none", [ParameterPath |-> <<>>, Name |-> <<>>], -1, ZeroValue, "none",
               Ret(NoErr, ZeroValue, <<>>), NoErr, ZeroValue, <<>>)

EmptyStore == [k \in Keys |-> <<>>]

(***************************************************************************)
(* Store operations as actions.  `before` is what Get(name, -1) returned   *)
(* just before the operation.                                              *)
(***************************************************************************)
Put(name, value, fault) ==
    /\ mode = "store"
    /\ backend = "ssm" => Len(ssm[parameterNameToString(name)]) < MaxHist
    /\ LET r == StorePut(backend, ssm, mem, name, value, fault)
           k == storeKey(backend, name)
       IN  /\ ssm' = IF backend = "ssm" THEN r.svc ELSE ssm
           /\ mem' = IF backend = "memory" THEN r.svc ELSE mem
           /\ last' = LastOp("Put", name, -1, value, fault,
                             StoreGet(backend, ssm, mem, name, -1, "none"),
                             r.err, ZeroValue, r.calls)
           /\ puts' = IF r.err = NoErr /\ backend = "ssm"
                      THEN [puts EXCEPT ![k] = Append(@, value.Value[1])] ELSE puts
           /\ deleted' = IF r.err = NoErr THEN deleted \ {k} ELSE deleted
    /\ UNCHANGED <<backend, clients, envVars>>

Get(name, version, fault) ==
    /\ mode = "store"
    /\ LET r == StoreGet(backend, ssm, mem, name, version, fault)
       IN  last' = LastOp("Get", name, version, ZeroValue, fault,
                          StoreGet(backend, ssm, mem, name, -1, "none"),
                          r.err, r.val, r.calls)
    /\ UNCHANGED <<backend, ssm, mem, puts, deleted, clients, envVars>>

Delete(name, fault) ==
    /\ mode = "store"
    /\ LET r == StoreDelete(backend, ssm, mem, name, fault)
           k == storeKey(backend, name)
       IN  /\ ssm' = IF backend = "ssm" THEN r.svc ELSE ssm
           /\ mem' = IF backend = "memory" THEN r.svc ELSE mem
           /\ last' = LastOp("Delete", name, -1, ZeroValue, fault,
                             StoreGet(backend, ssm, mem, name, -1, "none"),
                             r.err, ZeroValue, r.calls)
           /\ puts' = IF r.err = NoErr /\ backend = "ssm"
                      THEN [puts EXCEPT ![k] = <<>>] ELSE puts
           /\ deleted' = IF r.err = NoErr THEN deleted \cup {k} ELSE deleted
    /\ UNCHANGED <<backend, clients, envVars>>

(***************************************************************************)
(* SSMStore.Put run by several client processes against one service.  Put  *)
(* is two service interactions, the read of the latest value (s.Get(name,  *)
(* -1)) and the PutParameter that overwrites; the calls of other clients   *)
(* may be answered between them.                                           *)
(***************************************************************************)
Clients == {"c1", "c2"}

\* no client is inside Put
NoClients == [c \in Clients |->
                [pc |-> "idle", name |-> NoOp.name, value |-> ZeroValue,
                 current |-> Ret(NoErr, ZeroValue, <<>>)]]

\* SSMStore.Put up to `version = current.Meta.Version + 1`: the read of the
\* latest value; an error other than ErrConfigNotFound is returned.  inFlight
\* are the Puts on the key whose PutParameter is still to be sent.
PutRead(c, name, value, fault) ==
    /\ mode = "concurrent"
    /\ clients[c].pc = "idle"
    /\ LET k == parameterNameToString(name)
           current == getLatest(ssm, k, fault)
           inFlight == { o \in Clients : clients[o].pc = "read"
                                         /\ parameterNameToString(clients[o].name) = k }
       IN  /\ Len(ssm[k]) + Cardinality(inFlight) < MaxHist
           /\ IF current.err \notin {NoErr, ErrConfigNotFound}
              THEN /\ last' = LastOp("Put", name, -1, value, fault, current,
                                     current.err, ZeroValue, current.calls)
                   /\ UNCHANGED clients
              ELSE /\ clients' = [clients EXCEPT ![c] =
                                    [pc |-> "read", name |-> name, value |-> value,
                                     current |-> current]]
                   /\ UNCHANGED last
    /\ UNCHANGED <<backend, ssm, mem, puts, deleted, envVars>>

\* the rest of SSMStore.Put: PutParameter with Overwrite and the version
\* computed from the value read before
PutWrite(c, fault) ==
    /\ mode = "concurrent"
    /\ clients[c].pc = "read"
    /\ LET name == clients[c].name
           value == clients[c].value
           current == clients[c].current
           k == parameterNameToString(name)
           failed == fault = "PutParameter" \/ value.Value = None
       IN  /\ ssm' = IF failed THEN ssm
                     ELSE [ssm EXCEPT ![k] = Append(@, HistoryEntry(k, value.Value,
                                                     Some(Itoa(PutVersion(current)))))]
           /\ last' = LastOp("Put", name, -1, value, fault,
                             getLatest(ssm, k, "none"),
                             IF failed THEN ErrService ELSE NoErr, ZeroValue,
                             Append(current.calls, "PutParameter"))
           /\ puts' = IF failed THEN puts ELSE [puts EXCEPT ![k] = Append(@, value.Value[1])]
           /\ deleted' = IF failed THEN deleted ELSE deleted \ {k}
    /\ clients' = [clients EXCEPT ![c] = NoClients[c]]
    /\ UNCHANGED <<backend, mem, envVars>>

(***************************************************************************)
(* Package environ                                                         *)
(***************************************************************************)
\* bounds of the loads the model runs
MaxSeedLen == 3
MaxPrefixes == 2

Lower == <<"a", "b", "c", "d", "e", "f", "g", "h", "i", "j", "k", "l", "m",
           "n", "o", "p", "q", "r", "s", "t", "u", "v", "w", "x", "y", "z">>
Upper == <<"A", "B", "C", "D", "E", "F", "G", "H", "I", "J", "K", "L", "M",
           "N", "O", "P", "Q", "R", "S", "T", "U", "V", "W", "X", "Y", "Z">>

UpperChar(c) == IF \E i \in 1..26 : Lower[i] = c
                THEN Upper[CHOOSE i \in 1..26 : Lower[i] = c]
                ELSE c

\* strings.ToUpper
ToUpper(s) == [i \in 1..Len(s) |-> UpperChar(s[i])]

\* strings.ReplaceAll for a one-character old and new
ReplaceAll(s, old, new) == [i \in 1..Len(s) |-> IF s[i] = old THEN new ELSE s[i]]

\* normalizeEnvVarName (normalizeNoTrim: the same without the TrimPrefix)
normalizeNoTrim(k) ==
    ReplaceAll(ReplaceAll(ReplaceAll(ToUpper(k), "/", "_"), "-", "_"), ".", "_")
normalizeEnvVarName(k) ==
    TrimPrefix(ReplaceAll(ReplaceAll(ReplaceAll(ToUpper(k), "/", "_"), "-", "_"), ".", "_"),
               <<"_">>)

\* configKeyToEnvVarName
configKeyToEnvVarName(k) == normalizeEnvVarName(k)

\* a call of an Environ primitive or of the normalization, with what it returned
Call(op, key, val, ret) == [op |-> op, key |-> key, val |-> val, ret |-> ret]
NoCall == Call("none", <<>>, <<>>, <<>>)

\* whether entry kv is matched by key in Unset and IsSet
EntryHasKey(kv, key) == HasPrefix(kv, key \o <<"=">>)

\* Environ.Unset: the first matching entry is overwritten by the last entry
\* and the slice is cut by one (UnsetAllMatches: every matching entry removed,
\* the order of the rest kept)
UnsetAllMatches(env, key) == SelectSeq(env, LAMBDA kv : ~EntryHasKey(kv, key))
Unset(env, key) ==
    LET hits == { i \in 1..Len(env) : EntryHasKey(env[i], key) }
    IN  IF hits = {} THEN env
        ELSE SubSeq([env EXCEPT ![Min(hits)] = env[Len(env)]], 1, Len(env) - 1)

\* Environ.IsSet
IsSet(env, key) == \E i \in 1..Len(env) : EntryHasKey(env[i], key)

\* Environ.Set
Set(env, key, val) == Append(Unset(env, key), key \o <<"=">> \o val)

\* position of the first "=" of kv, 0 when there is none
EqIndex(kv) == IF \E i \in 1..Len(kv) : kv[i] = "="
               THEN Min({ i \in 1..Len(kv) : kv[i] = "=" })
               ELSE 0

\* strings.SplitN(kv, "=", 2)[0] and [1] of an entry that has a "="
EntryKey(kv) == SubSeq(kv, 1, EqIndex(kv) - 1)
EntryVal(kv) == SubSeq(kv, EqIndex(kv) + 1, Len(kv))

\* Environ.Map: entries without "=" are dropped, the later entry of a key wins
Map(env) ==
    LET valid == { i \in 1..Len(env) : EqIndex(env[i]) # 0 }
    IN  [k \in { EntryKey(env[i]) : i \in valid } |->
            EntryVal(env[CHOOSE i \in valid :
                            /\ EntryKey(env[i]) = k
                            /\ \A j \in valid : EntryKey(env[j]) = k => j <= i])]

(***************************************************************************)
(* ListRaw of the three backends.  The Go code collects the pairs in a map *)
(* and ranges over it, so the order of the returned slice is arbitrary:    *)
(* ListRaw yields the set of pairs and the load ranges over any order.     *)
(***************************************************************************)
RawValue(key, value) == [Key |-> key, Value |-> value]

PathChars == {"_", "-", "."} \cup Range(Lower) \cup Range(Upper) \cup Range(Digits)

\* validPathKeyFormat: ^(\/[\w\-\.]+)+$
validateName(name) ==
    /\ Len(name) >= 2
    /\ name[1] = "/"
    /\ name[Len(name)] # "/"
    /\ \A i \in 1..Len(name) : name[i] = "/" \/ name[i] \in PathChars
    /\ \A i \in 1..(Len(name) - 1) : ~(name[i] = "/" /\ name[i + 1] = "/")

ListRet(er, values) == [err |-> er, values |-> values]

\* MemoryStore.ListRaw: keys are returned with the prefix path cut off
MemoryListRaw(m, prefix) ==
    LET prefixPath == PathJoin(<<<<"/">>, prefix>>)
    IN  ListRet(NoErr, { RawValue(TrimPrefix(k, prefixPath), m[k][1].Value[1]) :
                         k \in { x \in DOMAIN m : m[x] # None /\ HasPrefix(x, prefixPath) } })

\* GetParametersByPath, recursive: the parameters of the hierarchy below path
UnderPath(k, path) == IF path = <<"/">> THEN HasPrefix(k, path)
                      ELSE HasPrefix(k, path \o <<"/">>)

\* errors GetParametersByPathPages may return: awserr.Error values, named by
\* their code, and an error of another type
AccessDenied == "AccessDeniedException"
AwsErrors == { AccessDenied, "InternalServerError" }
OtherErrors == { "connection reset" }

\* what a ListRaw call may meet in the service of backend b
ListRawFaults(b) == IF b = "ssm" THEN {"none"} \cup AwsErrors \cup OtherErrors ELSE {"none"}

\* SSMStore.ListRaw: keys are returned in full; an error of the service is
\* returned as it is, whether or not it is an awserr.Error
\* (SSMListRawOpaque: every error of the service returned as one generic error)
SSMListRawOpaque(svc, prefix, fault) ==
    IF fault # "none" THEN ListRet(ErrService, {}) ELSE ListRet(NoErr, {})
SSMListRaw(svc, prefix, fault) ==
    LET path == PathJoin(<<<<"/">>, prefix>>)
    IN  IF fault # "none"
        THEN IF fault \in AwsErrors THEN ListRet(fault, {}) ELSE ListRet(fault, {})
        ELSE ListRet(NoErr, { RawValue(k, Current(svc, k).Value[1]) :
                              k \in { x \in DOMAIN svc : /\ svc[x] # <<>>
                                                         /\ UnderPath(x, path)
                                                         /\ validateName(x) } })

\* (StoreListRawNullEmpty: the Null store answers with an empty list)
StoreListRawNullEmpty(b, svc, m, prefix, fault) ==
    IF b = "ssm" THEN SSMListRaw(svc, prefix, fault)
    ELSE IF b = "memory" THEN MemoryListRaw(m, prefix)
    ELSE ListRet(NoErr, {})
StoreListRaw(b, svc, m, prefix, fault) ==
    IF b = "ssm" THEN SSMListRaw(svc, prefix, fault)
    ELSE IF b = "memory" THEN MemoryListRaw(m, prefix)
    ELSE ListRet(ErrNotImplemented, {})

\* the orders in which a range over a Go map of the elements of S may run
RECURSIVE RangeOrders(_)
RangeOrders(S) ==
    IF S = {} THEN { <<>> }
    ELSE UNION { { <<x>> \o rest : rest \in RangeOrders(S \ {x}) } : x \in S }

(***************************************************************************)
(* List of the three backends.  The result is the map `configs` the code   *)
(* builds; the returned slice is its values in the order of a map range.   *)
(***************************************************************************)
\* batchSize := 10
batchSize == 10

\* batchEnd for the batch that starts after the first i keys of n
\* (batchEndShort: a full batch is cut one key short)
batchEndShort(i, n) == IF i + batchSize > n THEN n ELSE i + batchSize - 1
batchEnd(i, n) == IF i + batchSize > n THEN n ELSE i + batchSize

\* the batches valueKeys[i:batchEnd] of `for i := 0; i < len(valueKeys); i += batchSize`
Batches(valueKeys) ==
    [b \in 1..((Len(valueKeys) + batchSize - 1) \div batchSize) |->
        SubSeq(valueKeys, (b - 1) * batchSize + 1,
               batchEnd((b - 1) * batchSize, Len(valueKeys)))]

ListResult(configs, batches) == [configs |-> configs, batches |-> batches]

\* the parameters DescribeParameters (Path, Recursive) reports below prefix
\* that pass validateName
Described(svc, prefix) ==
    { k \in DOMAIN svc : /\ svc[k] # <<>>
                         /\ UnderPath(k, PathJoin(<<<<"/">>, prefix>>))
                         /\ validateName(k) }

\* SSMStore.List; valueKeys is keys(configs) in the order of the map range.
\* A failing GetParameters fails the first batch.
SSMList(svc, prefix, includeValues, fault, valueKeys) ==
    LET described == Described(svc, prefix)
        batches == Batches(valueKeys)
        fetched == UNION { Range(batches[b]) : b \in DOMAIN batches }
        gets == [b \in DOMAIN batches |-> "GetParameters"]
    IN  IF fault = "DescribeParameters"
        THEN Ret(ErrService, ListResult(<<>>, <<>>), <<"DescribeParameters">>)
        ELSE IF \E k \in described : Current(svc, k).Description = None
        THEN Ret(Panic, ListResult(<<>>, <<>>), <<"DescribeParameters">>)
        ELSE IF ~includeValues
        THEN Ret(NoErr,
                 ListResult([k \in described |->
                               [Value |-> None,
                                Meta |-> parameterMetaToValueMeta(Current(svc, k))]],
                            <<>>),
                 <<"DescribeParameters">>)
        ELSE IF fault = "GetParameters" /\ valueKeys # <<>>
        THEN Ret(ErrService, ListResult(<<>>, <<>>), <<"DescribeParameters", "GetParameters">>)
        ELSE Ret(NoErr,
                 ListResult([k \in described |->
                               [Value |-> IF k \in fetched THEN Current(svc, k).Value
                                          ELSE None,
                                Meta |-> parameterMetaToValueMeta(Current(svc, k))]],
                            batches),
                 <<"DescribeParameters">> \o gets)

\* MemoryStore.List: the entries are keyed by the key with the prefix path cut
\* off and carry no metadata
MemoryList(m, prefix, includeValues) ==
    LET prefixPath == PathJoin(<<<<"/">>, prefix>>)
        under == { k \in DOMAIN m : m[k] # None /\ HasPrefix(k, prefixPath) }
    IN  Ret(NoErr,
            ListResult([key \in { TrimPrefix(k, prefixPath) : k \in under } |->
                          LET k == CHOOSE x \in under : TrimPrefix(x, prefixPath) = key
                          IN  [Value |-> IF includeValues THEN m[k][1].Value ELSE None,
                               Meta |-> ZeroValue.Meta]],
                       <<>>),
            <<>>)

StoreList(b, svc, m, prefix, includeValues, fault, valueKeys) ==
    IF b = "ssm" THEN SSMList(svc, prefix, includeValues, fault, valueKeys)
    ELSE IF b = "memory" THEN MemoryList(m, prefix, includeValues)
    ELSE Ret(ErrNotImplemented, ListResult(<<>>, <<>>), <<>>)

(***************************************************************************)
(* Load                                                                    *)
(***************************************************************************)
\* Environ.load's loop over rawValues from position i on: the environ and the
\* collision list it leaves
RECURSIVE load(_, _, _, _, _)
load(env, prefixPath, rawValues, i, colls) ==
    IF i > Len(rawValues) THEN [e |-> env, collisions |-> colls]
    ELSE LET key == TrimPrefix(rawValues[i].Key, prefixPath)
             envVarKey == configKeyToEnvVarName(key)
         IN  load(Set(env, envVarKey, rawValues[i].Value), prefixPath, rawValues, i + 1,
                  IF IsSet(env, envVarKey) THEN Append(colls, envVarKey) ELSE colls)

(***************************************************************************)
(* LoadStrict                                                              *)
(***************************************************************************)
EnvError(kind, key, actual) == [kind |-> kind, Key |-> key, ValueActual |-> actual]
NilError == EnvError("nil", <<>>, <<>>)
\* fmt.Errorf("failed to list store contents (%s): %w", ..)
ListError == EnvError("ListRaw", <<>>, <<>>)
ExpectedKeyUnnormalizedError(k) == EnvError("ExpectedKeyUnnormalized", k, <<>>)
StoreUnexpectedValueError(k, actual) == EnvError("StoreUnexpectedValue", k, actual)
StoreMissingKeyError(k) == EnvError("StoreMissingKey", k, <<>>)

StrictRet(env, er, addedKeys) == [e |-> env, err |-> er, added |-> addedKeys]

\* loadStrictOne's loop over rawValues from position i on
RECURSIVE substitute(_, _, _, _, _, _, _)
substitute(env, parentMap, rawValues, i, parentExpects, envVarKeysAdded, valueExpected) ==
    IF i > Len(rawValues)
    THEN [e |-> env, err |-> NilError, expects |-> parentExpects, added |-> envVarKeysAdded]
    ELSE LET envVarKey == configKeyToEnvVarName(rawValues[i].Key)
         IN  IF envVarKey \notin DOMAIN parentMap
             THEN substitute(env, parentMap, rawValues, i + 1, parentExpects,
                             envVarKeysAdded, valueExpected)
             ELSE IF parentMap[envVarKey] # valueExpected
             THEN [e |-> env,
                   err |-> StoreUnexpectedValueError(envVarKey, parentMap[envVarKey]),
                   expects |-> parentExpects \ {envVarKey}, added |-> envVarKeysAdded]
             ELSE substitute(Set(env, envVarKey, rawValues[i].Value), parentMap, rawValues,
                             i + 1, parentExpects \ {envVarKey},
                             envVarKeysAdded \cup {envVarKey}, valueExpected)

\* the environs a range over the keys S, unsetting each, may leave
RECURSIVE unsetEach(_, _)
unsetEach(env, S) ==
    IF S = {} THEN { env }
    ELSE UNION { unsetEach(Unset(env, k), S \ {k}) : k \in S }

\* what loadStrictOne does after its loop over rawValues returned r
strictFinish(r, parentMap, prist) ==
    IF r.err # NilError THEN { StrictRet(r.e, r.err, r.added) }
    ELSE IF r.expects # {}
    THEN { StrictRet(r.e, StoreMissingKeyError(k), r.added) : k \in r.expects }
    ELSE IF prist
    THEN { StrictRet(env, NilError, r.added) :
           env \in unsetEach(r.e, DOMAIN parentMap \ r.added) }
    ELSE { StrictRet(r.e, NilError, r.added) }

\* Environ.loadStrictOne for rawValues in one order: the set of its possible
\* outcomes (the ranges over parentMap and parentExpects run in any order)
\* (loadStrictOneNoSkip: the first fetched pair is injected whether or not the
\* parent environment has its name)
loadStrictOneNoSkip(env, rawValues, valueExpected, prist) ==
    { StrictRet(IF rawValues = <<>> THEN env
                ELSE Set(env, configKeyToEnvVarName(rawValues[1].Key), rawValues[1].Value),
                NilError, {}) }
loadStrictOne(env, rawValues, valueExpected, prist) ==
    LET parentMap == Map(env)
        expected == { k \in DOMAIN parentMap : parentMap[k] = valueExpected }
        unnormalized == { k \in expected : k # normalizeEnvVarName(k) }
    IN  IF unnormalized # {}
        THEN { StrictRet(env, ExpectedKeyUnnormalizedError(k), {}) : k \in unnormalized }
        ELSE strictFinish(substitute(env, parentMap, rawValues, 1, expected, {},
                                     valueExpected),
                          parentMap, prist)

\* --strict-value: the sentinel ("changeme" by default)
ValueExpected == <<"c">>

\* one iteration of loadStrict's loop over prefixPaths
LoadStrictPrefix ==
    /\ mode = "strict"
    /\ pc = "run"
    /\ idx < Len(prefixPaths)
    /\ \E fault \in ListRawFaults(backend) :
       LET l == StoreListRaw(backend, ssm, mem, prefixPaths[idx + 1], fault)
       IN  /\ listRawCalls' = listRawCalls + 1
           /\ idx' = idx + 1
           /\ IF l.err # NoErr
              THEN /\ err' = ListError
                   /\ pc' = "done"
                   /\ UNCHANGED <<e, added>>
              ELSE \E rawValues \in RangeOrders(l.values) :
                     \E r \in loadStrictOne(e, rawValues, ValueExpected, pristine) :
                        /\ e' = r.e
                        /\ err' = r.err
                        /\ added' = added \cup r.added
                        /\ pc' = IF r.err # NilError THEN "done" ELSE "run"
    /\ UNCHANGED <<storeVars, seed, prefixPaths, pristine, mode, collisions, call>>

\* loadStrict's return nil after the loop
LoadStrictReturn ==
    /\ mode = "strict"
    /\ pc = "run"
    /\ idx = Len(prefixPaths)
    /\ pc' = "done"
    /\ UNCHANGED <<storeVars, e, seed, prefixPaths, pristine, mode, idx, err,
                   collisions, listRawCalls, added, call>>

(***************************************************************************)
(* The loads the model runs                                                *)
(***************************************************************************)
Str(key, val) == key \o <<"=">> \o val

\* entries a seed environment is made of
SeedEntries == { Str(<<"A">>, ValueExpected), Str(<<"B">>, ValueExpected),
                 Str(<<"A">>, <<"x">>), Str(<<"_", "A">>, ValueExpected) }

RECURSIVE SeqsUpTo(_, _)
SeqsUpTo(S, n) == IF n = 0 THEN { <<>> }
                  ELSE LET shorter == SeqsUpTo(S, n - 1)
                       IN  shorter \cup { Append(q, x) : q \in shorter, x \in S }

Seeds == SeqsUpTo(SeedEntries, MaxSeedLen)

Prefixes == { <<"/", "t">>, <<"/", "u">> }

PrefixLists == SeqsUpTo(Prefixes, MaxPrefixes)

\* the configurations a store may hold, each with its value
StoreEntries == { RawValue(<<"/", "t", "/", "a">>, <<"1">>),
                  RawValue(<<"/", "t", "/", "b">>, <<"2">>),
                  RawValue(<<"/", "u", "/", "b">>, <<"3">>),
                  RawValue(<<"/", "t", "/", "_", "a">>, <<"4">>),
                  RawValue(<<"/", "t", "/", "A">>, <<"5">>) }

\* the configurations a store may hold in a run of the exec command
ExecEntries == { RawValue(<<"/", "t", "/", "a", "/", "b">>, <<"1">>),
                 RawValue(<<"/", "t", "/", "a", "_", "b">>, <<"2">>),
                 RawValue(<<"/", "t", "/", "t", "/", "a">>, <<"3">>),
                 RawValue(<<"/", "u", "/", "a">>, <<"4">>) }

StoreKeys == { c.Key : c \in StoreEntries \cup ExecEntries }

\* NewMemoryStoreFromMap; its key path.Join("/", key), computed once for the
\* configurations in use
ConfigKeyOf == [c \in StoreEntries \cup ExecEntries |-> PathJoin(<<<<"/">>, c.Key>>)]
NewMemoryStoreFromMap(configs) ==
    [k \in StoreKeys |->
        IF \E c \in configs : ConfigKeyOf[c] = k
        THEN Some([ZeroValue EXCEPT
                     !.Value = Some((CHOOSE c \in configs : ConfigKeyOf[c] = k).Value)])
        ELSE None]

InitStrict ==
    /\ backend \in {"memory", "null"}
    /\ ssm = [k \in StoreKeys |-> <<>>]
    /\ mem \in { NewMemoryStoreFromMap(configs) :
                 configs \in IF backend = "memory" THEN SUBSET StoreEntries ELSE { {} } }
    /\ last = NoOp
    /\ puts = [k \in StoreKeys |-> <<>>]
    /\ deleted = {}
    /\ clients = NoClients
    /\ seed \in Seeds
    /\ e = seed
    /\ prefixPaths \in PrefixLists
    /\ pristine \in BOOLEAN
    /\ mode = "strict"
    /\ pc = "run"
    /\ idx = 0
    /\ err = NilError
    /\ collisions = <<>>
    /\ listRawCalls = 0
    /\ added = {}
    /\ call = NoCall

NextStrict == LoadStrictPrefix \/ LoadStrictReturn

SpecStrict == InitStrict /\ [][NextStrict]_vars

(***************************************************************************)
(* The exec command: runExec loads the environment, in strict mode with    *)
(* one LoadStrict over the prefixes, otherwise with one Load per prefix,   *)
(* and launches the command.  `seed` is the environ the last Load or      *)
(* LoadStrict call started from.                                           *)
(***************************************************************************)
\* one iteration of runExec's loop over prefixPaths: a fresh collision list
\* and env.Load(configStore, prefixPath, &collisions)
Load ==
    /\ mode = "permissive"
    /\ pc = "run"
    /\ idx < Len(prefixPaths)
    /\ \E fault \in ListRawFaults(backend) :
       LET l == StoreListRaw(backend, ssm, mem, prefixPaths[idx + 1], fault)
       IN  /\ listRawCalls' = listRawCalls + 1
           /\ idx' = idx + 1
           /\ seed' = e
           /\ IF l.err # NoErr
              THEN /\ err' = ListError
                   /\ pc' = "done"
                   /\ collisions' = <<>>
                   /\ UNCHANGED <<e, added>>
              ELSE \E rawValues \in RangeOrders(l.values) :
                     LET r == load(e, prefixPaths[idx + 1], rawValues, 1, <<>>)
                     IN  /\ e' = r.e
                         /\ collisions' = r.collisions
                         /\ added' = added \cup (DOMAIN Map(r.e) \ DOMAIN Map(e))
                         /\ UNCHANGED <<err, pc>>
    /\ UNCHANGED <<storeVars, prefixPaths, pristine, mode, call>>

\* the end of runExec's loop over prefixPaths
LoadsReturn ==
    /\ mode = "permissive"
    /\ pc = "run"
    /\ idx = Len(prefixPaths)
    /\ pc' = "done"
    /\ UNCHANGED <<storeVars, e, seed, prefixPaths, pristine, mode, idx, err,
                   collisions, listRawCalls, added, call>>

\* return exec.Exec(command, commandArgs, env), reached when no load failed
\* (ExecAfterAnyLoad: the command is launched whatever the load returned)
ExecAfterAnyLoad ==
    /\ pc = "done"
    /\ pc' = "exec"
    /\ UNCHANGED <<storeVars, e, seed, prefixPaths, pristine, mode, idx, err,
                   collisions, listRawCalls, added, call>>
Exec ==
    /\ pc = "done"
    /\ err = NilError
    /\ pc' = "exec"
    /\ UNCHANGED <<storeVars, e, seed, prefixPaths, pristine, mode, idx, err,
                   collisions, listRawCalls, added, call>>

\* runExec returns the error of the load
ReturnError ==
    /\ pc = "done"
    /\ err # NilError
    /\ pc' = "exit"
    /\ UNCHANGED <<storeVars, e, seed, prefixPaths, pristine, mode, idx, err,
                   collisions, listRawCalls, added, call>>

\* entries of the environment sicc exec is started in
ExecSeedEntries == { Str(<<"U", "_", "A">>, ValueExpected), Str(<<"A">>, <<"x">>) }

\* the service after the configurations were written once each (sicc import)
NewSSMStoreFromMap(configs) ==
    [k \in StoreKeys |->
        IF \E c \in configs : c.Key = k
        THEN <<HistoryEntry(k, Some((CHOOSE c \in configs : c.Key = k).Value), Some(Itoa(1)))>>
        ELSE <<>>]

InitExec ==
    /\ backend \in {"ssm", "memory", "null"}
    /\ \E configs \in IF backend = "null" THEN { {} } ELSE SUBSET ExecEntries :
          /\ mem = NewMemoryStoreFromMap(IF backend = "memory" THEN configs ELSE {})
          /\ ssm = NewSSMStoreFromMap(IF backend = "ssm" THEN configs ELSE {})
    /\ last = NoOp
    /\ puts = [k \in StoreKeys |-> <<>>]
    /\ deleted = {}
    /\ clients = NoClients
    /\ mode \in {"strict", "permissive"}
    /\ pristine \in BOOLEAN
    /\ \E environ \in SeqsUpTo(ExecSeedEntries, MaxSeedLen) :
          e = IF mode = "permissive" /\ pristine THEN <<>> ELSE environ
    /\ seed = e
    /\ prefixPaths \in PrefixLists
    /\ pc = "run"
    /\ idx = 0
    /\ err = NilError
    /\ collisions = <<>>
    /\ listRawCalls = 0
    /\ added = {}
    /\ call = NoCall

NextExec ==
    \/ LoadStrictPrefix
    \/ LoadStrictReturn
    \/ Load
    \/ LoadsReturn
    \/ Exec
    \/ ReturnError

SpecExec == InitExec /\ [][NextExec]_vars

InitEnvIdle ==
    /\ e = <<>>
    /\ seed = <<>>
    /\ prefixPaths = <<>>
    /\ pristine = FALSE
    /\ mode = "store"
    /\ pc = "done"
    /\ idx = 0
    /\ err = NilError
    /\ collisions = <<>>
    /\ listRawCalls = 0
    /\ added = {}
    /\ call = NoCall

\* Store.ListRaw called on the store of the run
ListRaw(prefix, fault) ==
    /\ mode = "store"
    /\ LET r == StoreListRaw(backend, ssm, mem, prefix, fault)
       IN  last' = LastOp("ListRaw", [ParameterPath |-> prefix, Name |-> <<>>], -1,
                          ZeroValue, fault, Ret(NoErr, ZeroValue, <<>>), r.err, ZeroValue,
                          IF backend = "ssm" THEN <<"GetParametersByPath">> ELSE <<>>)
    /\ UNCHANGED <<backend, ssm, mem, puts, deleted, clients, envVars>>

\* a fresh backend: NewMemoryStore(), NewNullStore(), or the service with no
\* parameter stored
Init ==
    /\ backend \in {"ssm", "memory", "null"}
    /\ ssm = EmptyStore
    /\ mem = EmptyStore
    /\ last = NoOp
    /\ puts = EmptyStore
    /\ deleted = {}
    /\ clients = NoClients
    /\ InitEnvIdle

Next ==
    \/ \E name \in Names, value \in PutValues :
         \E fault \in OpFaults(backend, "Put", -1) : Put(name, value, fault)
    \/ \E name \in Names, version \in GetVersions :
         \E fault \in OpFaults(backend, "Get", version) : Get(name, version, fault)
    \/ \E name \in Names :
         \E fault \in OpFaults(backend, "Delete", -1) : Delete(name, fault)
    \/ \E prefix \in Prefixes :
         \E fault \in ListRawFaults(backend) : ListRaw(prefix, fault)

Spec == Init /\ [][Next]_vars

\* two clients of one service that holds no parameter yet
InitConcurrent ==
    /\ backend = "ssm"
    /\ ssm = EmptyStore
    /\ mem = EmptyStore
    /\ last = NoOp
    /\ puts = EmptyStore
    /\ deleted = {}
    /\ clients = NoClients
    /\ e = <<>>
    /\ seed = <<>>
    /\ prefixPaths = <<>>
    /\ pristine = FALSE
    /\ mode = "concurrent"
    /\ pc = "done"
    /\ idx = 0
    /\ err = NilError
    /\ collisions = <<>>
    /\ listRawCalls = 0
    /\ added = {}
    /\ call = NoCall

NextConcurrent ==
    \/ \E c \in Clients, name \in Names, value \in PutValues :
         \E fault \in {"none", "GetParameters", "DescribeParameters"} :
            PutRead(c, name, value, fault)
    \/ \E c \in Clients : \E fault \in {"none", "PutParameter"} : PutWrite(c, fault)

SpecConcurrent == InitConcurrent /\ [][NextConcurrent]_vars

(***************************************************************************)
(* Get on a service whose parameters were written by any tool: an entry of *)
(* a history may have no description, or one that is not a number.         *)
(***************************************************************************)
\* the history entries a parameter may hold: written without a description,
\* with a description that is no number, by Put as versions 1 and 2, and one
\* the service returns without a value
ForeignEntries(k) ==
    { HistoryEntry(k, Some(<<"x">>), None),
      HistoryEntry(k, Some(<<"x">>), Some(<<"x">>)),
      HistoryEntry(k, Some(<<"x">>), Some(Itoa(1))),
      HistoryEntry(k, Some(<<"y">>), Some(Itoa(2))),
      HistoryEntry(k, None, Some(Itoa(1))) }

\* /t/a holds any history up to MaxHist entries, /t/b is absent
InitHistory ==
    /\ backend = "ssm"
    /\ \E hist \in SeqsUpTo(ForeignEntries(<<"/", "t", "/", "a">>), MaxHist) :
          ssm = [EmptyStore EXCEPT ![<<"/", "t", "/", "a">>] = hist]
    /\ mem = EmptyStore
    /\ last = NoOp
    /\ puts = EmptyStore
    /\ deleted = {}
    /\ clients = NoClients
    /\ InitEnvIdle

NextHistory ==
    \E name \in Names, version \in GetVersions :
       \E fault \in OpFaults(backend, "Get", version) : Get(name, version, fault)

SpecHistory == InitHistory /\ [][NextHistory]_vars

(***************************************************************************)
(* List on a store that holds more keys than one batch                     *)
(***************************************************************************)
\* most keys the listed store holds below /t
MaxListKeys == 12

\* /t/k1 .. /t/k<MaxListKeys>, written by Put once each; /t/f, written by
\* another tool without a description; /u/k
ListKeys == [i \in 1..MaxListKeys |-> <<"/", "t", "/", "k">> \o ItoaNat(i)]
ForeignKey == <<"/", "t", "/", "f">>
OtherKey == <<"/", "u", "/", "k">>
AllListKeys == ListKeys \o <<ForeignKey, OtherKey>>

\* the value stored under a key: its last path element
ListValue(k) == SubSeq(k, 4, Len(k))

\* orders of a range over a map with the keys S: every order of up to three
\* keys; of more keys, the rotations of one order and of its reverse
ListOrders(S) ==
    IF Cardinality(S) <= 3 THEN RangeOrders(S)
    ELSE LET sorted == SelectSeq(AllListKeys, LAMBDA k : k \in S)
             n == Len(sorted)
         IN  { [i \in 1..n |-> sorted[((i + r - 1) % n) + 1]] : r \in 0..(n - 1) }
             \cup { [i \in 1..n |-> sorted[n - ((i + r - 1) % n)]] : r \in 0..(n - 1) }

\* Store.List called on the store of the run
List(prefix, includeValues, fault) ==
    /\ mode = "list"
    /\ \E valueKeys \in IF backend = "ssm" /\ includeValues
                         THEN ListOrders(Described(ssm, prefix)) ELSE { <<>> } :
          LET r == StoreList(backend, ssm, mem, prefix, includeValues, fault, valueKeys)
          IN  last' = LastOp("List", [ParameterPath |-> prefix, Name |-> <<>>], -1,
                             [includeValues |-> includeValues], fault,
                             Ret(NoErr, ZeroValue, <<>>), r.err, r.val, r.calls)
    /\ UNCHANGED <<backend, ssm, mem, puts, deleted, clients, envVars>>

InitList ==
    /\ backend \in {"ssm", "memory", "null"}
    /\ \E n \in 0..MaxListKeys, foreign \in BOOLEAN, other \in BOOLEAN :
          LET present == { ListKeys[i] : i \in 1..n }
                         \cup (IF foreign THEN {ForeignKey} ELSE {})
                         \cup (IF other THEN {OtherKey} ELSE {})
          IN  /\ ssm = [k \in Range(AllListKeys) |->
                          IF backend # "ssm" \/ k \notin present THEN <<>>
                          ELSE <<HistoryEntry(k, Some(ListValue(k)),
                                              IF k = ForeignKey THEN None
                                              ELSE Some(Itoa(1)))>>]
              /\ mem = [k \in Range(AllListKeys) |->
                          IF backend # "memory" \/ k \notin present THEN None
                          ELSE Some([ZeroValue EXCEPT !.Value = Some(ListValue(k))])]
    /\ last = NoOp
    /\ puts = [k \in Range(AllListKeys) |-> <<>>]
    /\ deleted = {}
    /\ clients = NoClients
    /\ e = <<>>
    /\ seed = <<>>
    /\ prefixPaths = <<>>
    /\ pristine = FALSE
    /\ mode = "list"
    /\ pc = "done"
    /\ idx = 0
    /\ err = NilError
    /\ collisions = <<>>
    /\ listRawCalls = 0
    /\ added = {}
    /\ call = NoCall

NextList ==
    \E prefix \in Prefixes, includeValues \in BOOLEAN :
       \E fault \in IF backend = "ssm" THEN {"none", "DescribeParameters", "GetParameters"}
                     ELSE {"none"} :
          List(prefix, includeValues, fault)

SpecList == InitList /\ [][NextList]_vars

(***************************************************************************)
(* The delete command                                                      *)
(***************************************************************************)
\* validConfigPathFormat: ^[\/]*[\w\.\-]+(\/[\w\.\-]+)*$
validateConfigPathName(configPath) ==
    LET slashes == Min({ i \in 0..Len(configPath) :
                           i = Len(configPath) \/ configPath[i + 1] # "/" })
        rest == SubSeq(configPath, slashes + 1, Len(configPath))
    IN  /\ rest # <<>>
        /\ rest[Len(rest)] # "/"
        /\ \A i \in 1..Len(rest) : rest[i] = "/" \/ rest[i] \in PathChars
        /\ \A i \in 1..(Len(rest) - 1) : ~(rest[i] = "/" /\ rest[i + 1] = "/")

\* path.Split: the path up to and with its last slash, and the rest
parameterNameFromPath(configPath) ==
    [ParameterPath |-> SubSeq(configPath, 1, LastSlash(configPath)),
     Name |-> SubSeq(configPath, LastSlash(configPath) + 1, Len(configPath))]

ErrRecursiveDeleteOp == "Removal requires --force flag"
ErrValidation == "validation failed"

\* deleteFromStore on the contents c of backend b
deleteFromStore(b, c, configPath, fault) ==
    StoreDelete(b, c, c, parameterNameFromPath(configPath), fault)

\* runDelete's loop over the listed configs from position i on; a failing
\* DeleteParameter fails the first Delete the command issues
RECURSIVE deleteEach(_, _, _, _, _, _)
deleteEach(b, c, keys, i, dryRun, fault) ==
    IF i > Len(keys) THEN PutRet(c, NoErr, <<>>)
    ELSE IF dryRun THEN deleteEach(b, c, keys, i + 1, dryRun, fault)
    ELSE LET r == deleteFromStore(b, c, keys[i], fault)
         IN  IF r.err # NoErr THEN PutRet(c, r.err, <<>>)
             ELSE deleteEach(b, r.svc, keys, i + 1, dryRun, "none")

\* runDelete; the configs List returned are ranged over in the order `order`
\* puts them in
runDelete(b, c, arg, flags, fault, order) ==
    LET configPathName == PathJoin(<<<<"/">>, arg>>)
        name == parameterNameFromPath(configPathName)
        got == StoreGet(b, c, c, name, -1,
                        IF fault \in {"GetParameters", "DescribeParameters"} THEN fault
                        ELSE "none")
        delFault == IF fault = "DeleteParameter" THEN fault ELSE "none"
        single == IF got.err = NoErr /\ ~flags.DryRun
                  THEN deleteFromStore(b, c, configPathName, delFault)
                  ELSE PutRet(c, NoErr, <<>>)
        listed == StoreList(b, single.svc, single.svc, configPathName, FALSE, "none", <<>>)
    IN  IF ~validateConfigPathName(configPathName) THEN PutRet(c, ErrValidation, <<>>)
        ELSE IF got.err \notin {NoErr, ErrConfigNotFound} THEN PutRet(c, got.err, <<>>)
        ELSE IF single.err # NoErr THEN PutRet(c, single.err, <<>>)
        ELSE IF ~flags.Recursive THEN PutRet(single.svc, NoErr, <<>>)
        ELSE IF ~flags.Force THEN PutRet(single.svc, ErrRecursiveDeleteOp, <<>>)
        ELSE IF listed.err # NoErr THEN PutRet(single.svc, listed.err, <<>>)
        ELSE deleteEach(b, single.svc,
                        LET configs == SelectSeq(order,
                                                 LAMBDA k : k \in DOMAIN listed.val.configs)
                        IN  [i \in DOMAIN configs |-> listed.val.configs[configs[i]].Meta.Key],
                        1, flags.DryRun,
                        IF got.err = NoErr /\ ~flags.DryRun THEN "none" ELSE delFault)

\* the arguments the command is run with: a configuration, a path above
\* configurations, a relative path, a path that is not valid
DeleteArgs == { <<"/", "t", "/", "a">>, <<"/", "t">>, <<"t", "/", "b">>,
                <<"/", "t", "/", "*">> }

DeleteFlags == [Recursive : BOOLEAN, Force : BOOLEAN, DryRun : BOOLEAN]

\* the keys the stores of the delete command are defined on
DeleteKeys == Keys \cup { <<"/", "t">>, <<"/">>, <<>> }

\* sicc delete [--recursive] [--force] [--dryrun] <arg>; `before` is the
\* contents of the store when the command starts
DeleteCommand(arg, flags, fault) ==
    /\ mode = "delete"
    /\ LET c == Content(backend, ssm, mem)
           l == StoreList(backend, c, c, PathJoin(<<<<"/">>, arg>>), FALSE, "none", <<>>)
       IN  \E order \in RangeOrders(IF l.err = NoErr THEN DOMAIN l.val.configs ELSE {}) :
             LET r == runDelete(backend, c, arg, flags, fault, order)
             IN  /\ ssm' = IF backend = "ssm" THEN r.svc ELSE ssm
                 /\ mem' = IF backend = "memory" THEN r.svc ELSE mem
                 /\ last' = LastOp("delete", [ParameterPath |-> arg, Name |-> <<>>], -1,
                                   flags, fault, c, r.err, ZeroValue, <<>>)
    /\ UNCHANGED <<backend, puts, deleted, clients, envVars>>

InitDelete ==
    /\ backend \in {"ssm", "memory", "null"}
    /\ \E present \in SUBSET Keys :
          /\ ssm = [k \in DeleteKeys |->
                      IF backend = "ssm" /\ k \in present
                      THEN <<HistoryEntry(k, Some(<<"x">>), Some(Itoa(1)))>> ELSE <<>>]
          /\ mem = [k \in DeleteKeys |->
                      IF backend = "memory" /\ k \in present
                      THEN Some([ZeroValue EXCEPT !.Value = Some(<<"x">>)]) ELSE None]
    /\ last = NoOp
    /\ puts = [k \in DeleteKeys |-> <<>>]
    /\ deleted = {}
    /\ clients = NoClients
    /\ e = <<>>
    /\ seed = <<>>
    /\ prefixPaths = <<>>
    /\ pristine = FALSE
    /\ mode = "delete"
    /\ pc = "done"
    /\ idx = 0
    /\ err = NilError
    /\ collisions = <<>>
    /\ listRawCalls = 0
    /\ added = {}
    /\ call = NoCall

NextDelete ==
    \E arg \in DeleteArgs, flags \in DeleteFlags :
       \E fault \in IF backend = "ssm"
                     THEN {"none", "GetParameters", "DescribeParameters", "DeleteParameter"}
                     ELSE {"none"} :
          DeleteCommand(arg, flags, fault)

SpecDelete == InitDelete /\ [][NextDelete]_vars

(***************************************************************************)
(* The key normalization applied to store keys                             *)
(***************************************************************************)
\* longest key drawn from KeyChars
MaxKeyLen == 3

KeyChars == {"/", "-", ".", "_", "k", "K"}

\* the keys normalized: every string over KeyChars up to MaxKeyLen and the
\* keys of TestConfigKeyToEnvVarName
KeyStrings == SeqsUpTo(KeyChars, MaxKeyLen)
              \cup { <<"/", "k">>, <<"/", "t", "/", "k">>, <<"/", "t", "/", "p", "/", "k">> }

\* envVarKey := configKeyToEnvVarName(key)
Normalize(k) ==
    /\ mode = "normalize"
    /\ call' = Call("configKeyToEnvVarName", k, <<>>, configKeyToEnvVarName(k))
    /\ UNCHANGED <<storeVars, e, seed, prefixPaths, pristine, mode, pc, idx, err,
                   collisions, listRawCalls, added>>

InitNormalize ==
    /\ backend = "null"
    /\ ssm = EmptyStore
    /\ mem = EmptyStore
    /\ last = NoOp
    /\ puts = EmptyStore
    /\ deleted = {}
    /\ clients = NoClients
    /\ e = <<>>
    /\ seed = <<>>
    /\ prefixPaths = <<>>
    /\ pristine = FALSE
    /\ mode = "normalize"
    /\ pc = "done"
    /\ idx = 0
    /\ err = NilError
    /\ collisions = <<>>
    /\ listRawCalls = 0
    /\ added = {}
    /\ call = NoCall

NextNormalize == \E k \in KeyStrings : Normalize(k)

SpecNormalize == InitNormalize /\ [][NextNormalize]_vars

(***************************************************************************)
(* The Environ primitives called directly on an environment                *)
(***************************************************************************)
\* names and values the primitives are called with
EnvKeys == { <<"A">>, <<"B">> }
EnvVals == { <<"x">>, ValueExpected }

\* env.Set(key, val)
EnvSet(key, val) ==
    /\ mode = "environ"
    /\ Len(e) <= MaxSeedLen
    /\ e' = Set(e, key, val)
    /\ call' = Call("Set", key, val, <<>>)
    /\ UNCHANGED <<storeVars, seed, prefixPaths, pristine, mode, pc, idx, err,
                   collisions, listRawCalls, added>>

\* env.Unset(key)
EnvUnset(key) ==
    /\ mode = "environ"
    /\ e' = Unset(e, key)
    /\ call' = Call("Unset", key, <<>>, <<>>)
    /\ UNCHANGED <<storeVars, seed, prefixPaths, pristine, mode, pc, idx, err,
                   collisions, listRawCalls, added>>

\* env.IsSet(key)
EnvIsSet(key) ==
    /\ mode = "environ"
    /\ call' = Call("IsSet", key, <<>>, IsSet(e, key))
    /\ UNCHANGED <<storeVars, e, seed, prefixPaths, pristine, mode, pc, idx, err,
                   collisions, listRawCalls, added>>

InitEnviron ==
    /\ backend = "null"
    /\ ssm = EmptyStore
    /\ mem = EmptyStore
    /\ last = NoOp
    /\ puts = EmptyStore
    /\ deleted = {}
    /\ clients = NoClients
    /\ seed \in Seeds
    /\ e = seed
    /\ prefixPaths = <<>>
    /\ pristine = FALSE
    /\ mode = "environ"
    /\ pc = "done"
    /\ idx = 0
    /\ err = NilError
    /\ collisions = <<>>
    /\ listRawCalls = 0
    /\ added = {}
    /\ call = NoCall

NextEnviron ==
    \/ \E key \in EnvKeys, val \in EnvVals : EnvSet(key, val)
    \/ \E key \in EnvKeys : EnvUnset(key)
    \/ \E key \in EnvKeys : EnvIsSet(key)

SpecEnviron == InitEnviron /\ [][NextEnviron]_vars

(***************************************************************************)
(* Properties of the store                                                 *)
(***************************************************************************)
\* C1: on the SSM backend a successful Put(name, x) makes Get(name, -1) return
\* x with Meta.Version one more than the version Get(name, -1) reported just
\* before the Put, and 1 when the key did not exist.
C1_PutThenGetLatest ==
    (backend = "ssm" /\ last.op = "Put" /\ last.err = NoErr) =>
        LET g == SSMGet(ssm, last.name, -1, "none")
        IN  /\ g.err = NoErr
            /\ g.val.Value = last.value.Value
            /\ g.val.Meta.Version = IF last.before.err = NoErr
                                    THEN last.before.val.Meta.Version + 1
                                    ELSE 1

\* a third Put to a key has succeeded and a first Put to a new key can be seen too
C1_Witness ==
    /\ backend = "ssm"
    /\ last.op = "Put"
    /\ last.err = NoErr
    /\ last.before.err = NoErr
    /\ last.before.val.Meta.Version = 2
    /\ SSMGet(ssm, last.name, -1, "none").val.Meta.Version = 3

\* C2: on the SSM backend, after n successful Puts to a key with no Delete in
\* between, Get(name, v) returns the value of the v-th Put for every v in
\* 1..n, in every later state as well (later Puts do not change it).
C2_VersionsRetained ==
    backend = "ssm" =>
        \A name \in Names :
            \A v \in 1..Len(puts[parameterNameToString(name)]) :
                LET g == SSMGet(ssm, name, v, "none")
                IN  /\ g.err = NoErr
                    /\ g.val.Value = Some(puts[parameterNameToString(name)][v])
                    /\ g.val.Meta.Version = v

\* three Puts of differing values to one key, and the first is read back
C2_Witness ==
    /\ backend = "ssm"
    /\ last.op = "Get"
    /\ last.version = 1
    /\ last.err = NoErr
    /\ LET k == parameterNameToString(last.name)
       IN  /\ Len(puts[k]) = MaxHist
           /\ puts[k][1] # puts[k][MaxHist]
           /\ last.val.Value = Some(puts[k][1])

\* C3: once Delete(name) has succeeded, Get(name, v) fails with
\* ErrConfigNotFound for every explicit version v and for -1, until a Put to
\* that key succeeds; on the SSM and on the in-memory backend (the service
\* answering the calls of the Get).
C3_DeletedStaysNotFound ==
    \A name \in Names :
        storeKey(backend, name) \in deleted =>
            \A v \in GetVersions :
                StoreGet(backend, ssm, mem, name, v, "none").err = ErrConfigNotFound

\* a Get of version 1 has failed on a key that was deleted on the SSM backend
C3_Witness ==
    /\ backend = "ssm"
    /\ last.op = "Get"
    /\ last.version = 1
    /\ last.fault = "none"
    /\ last.err = ErrConfigNotFound
    /\ parameterNameToString(last.name) \in deleted

\* C4: on the SSM backend a Delete of a key that does not exist changes
\* nothing in the service, issues no DeleteParameter call, and returns
\* ErrConfigNotFound (when the service answers the existence check).
C4_DeleteMissingKey ==
    [][(backend = "ssm" /\ last'.op = "Delete" /\ last'.before.err = ErrConfigNotFound) =>
          /\ ssm' = ssm
          /\ "DeleteParameter" \notin Range(last'.calls)
          /\ (last'.fault \in {"none", "DeleteParameter"} => last'.err = ErrConfigNotFound)]_vars

\* a Delete of a missing key has returned ErrConfigNotFound
C4_Witness ==
    /\ backend = "ssm"
    /\ last.op = "Delete"
    /\ last.fault = "none"
    /\ last.before.err = ErrConfigNotFound
    /\ last.err = ErrConfigNotFound
    /\ \E k \in Keys : ssm[k] # <<>>

\* C5: on the in-memory backend a successful Put makes Get(name, -1) return
\* the written value with Meta.Version one more than the version Get
\* returned before the Put, and 1 for a key written for the first time.
C5_MemoryPutVersion ==
    (backend = "memory" /\ last.op = "Put" /\ last.err = NoErr) =>
        LET g == MemoryGet(mem, last.name, -1)
        IN  /\ g.err = NoErr
            /\ g.val.Value = last.value.Value
            /\ g.val.Meta.Version = IF last.before.err = NoErr
                                    THEN last.before.val.Meta.Version + 1
                                    ELSE 1

\* C17: on the SSM backend, when the service or the transport fails while
\* Get(name, v) pages the history, Get returns an error other than
\* ErrConfigNotFound.
C17_HistoryFailureIsBackendError ==
    (backend = "ssm" /\ last.op = "Get" /\ last.version # -1
                     /\ last.fault = "GetParameterHistory")
    => last.err \notin {NoErr, ErrConfigNotFound}

\* C18: ListRaw on the SSM backend returns the AccessDenied error exactly when
\* the service denies access: any other failure of the service gives an error
\* that is neither nil nor AccessDenied, and an answered call gives nil.
C18_ListRawAccessDenied ==
    (backend = "ssm" /\ last.op = "ListRaw") =>
        /\ last.fault = AccessDenied => last.err = AccessDenied
        /\ last.fault \notin {"none", AccessDenied} => last.err \notin {NoErr, AccessDenied}
        /\ last.fault = "none" => last.err = NoErr

\* ListRaw has been denied access on a service that holds a parameter, and
\* has met another failure of the service too
C18_Witness ==
    /\ backend = "ssm"
    /\ last.op = "ListRaw"
    /\ last.fault = AccessDenied
    /\ last.err = AccessDenied
    /\ \E k \in Keys : ssm[k] # <<>>

(***************************************************************************)
(* Properties of LoadStrict                                                *)
(***************************************************************************)
\* the seed as variables, and those of them that hold the sentinel
SeedMap == Map(seed)
SentinelVars == { k \in DOMAIN SeedMap : SeedMap[k] = ValueExpected }

\* the pairs ListRaw returns for a prefix from the store of the run
Fetched(prefix) == StoreListRaw(backend, ssm, mem, prefix, "none").values

\* the pairs fetched under the listed prefixes that normalize to name k
MatchesIn(k, prefixList) ==
    { m \in UNION { { <<i, rv>> : rv \in Fetched(prefixList[i]) } : i \in DOMAIN prefixList } :
        configKeyToEnvVarName(m[2].Key) = k }

StrictDone == mode = "strict" /\ pc = "done"
ListRawWorks == backend # "null"

\* C6: LoadStrict with one prefix (pristine=false), when every seed variable
\* holding the sentinel has a store key normalizing to its name and no store
\* key normalizes to a seed variable holding another value: no error, each
\* sentinel variable holds its store value, every other seed variable keeps
\* its value, and no variable is added or removed.
C6_LoadStrictOnePrefix ==
    (/\ StrictDone
     /\ ListRawWorks
     /\ Len(prefixPaths) = 1
     /\ ~pristine
     /\ \A k \in SentinelVars : MatchesIn(k, prefixPaths) # {}
     /\ \A k \in DOMAIN SeedMap \ SentinelVars : MatchesIn(k, prefixPaths) = {})
    => /\ err = NilError
       /\ DOMAIN Map(e) = DOMAIN SeedMap
       /\ \A k \in SentinelVars : \E m \in MatchesIn(k, prefixPaths) : Map(e)[k] = m[2].Value
       /\ \A k \in DOMAIN SeedMap \ SentinelVars : Map(e)[k] = SeedMap[k]

\* the sentinel variables no store key fetched under any listed prefix fills
Unresolved == { k \in SentinelVars : MatchesIn(k, prefixPaths) = {} }

\* C7: LoadStrict over a non-empty prefix list, when some sentinel variable
\* has no store key under any listed prefix and no other error arises first,
\* fails with StoreMissingKeyError naming one of those unresolved variables.
C7_MissingKeyNamesUnresolved ==
    (/\ StrictDone
     /\ Len(prefixPaths) >= 1
     /\ Unresolved # {}
     /\ err.kind \notin {"ListRaw", "ExpectedKeyUnnormalized", "StoreUnexpectedValue"})
    => /\ err.kind = "StoreMissingKey"
       /\ err.Key \in Unresolved

\* C8: with several prefixes, if every sentinel variable of the seed is matched
\* by exactly one store key under the listed prefixes (and nothing else can
\* fail: names normalized, no store key for the other seed variables),
\* LoadStrict succeeds even when the first prefix does not cover them all.
C8_MissingCheckAfterAllPrefixes ==
    (/\ StrictDone
     /\ ListRawWorks
     /\ Len(prefixPaths) >= 1
     /\ \A i, j \in DOMAIN prefixPaths : i # j => prefixPaths[i] # prefixPaths[j]
     /\ \A k \in SentinelVars : k = normalizeEnvVarName(k)
     /\ \A k \in SentinelVars : Cardinality(MatchesIn(k, prefixPaths)) = 1
     /\ \A k \in DOMAIN SeedMap \ SentinelVars : MatchesIn(k, prefixPaths) = {})
    => err = NilError

\* C9: a LoadStrict over at least one prefix with pristine=true that returns
\* no error leaves exactly the variables substituted from the store during
\* the call, for any seed sequence: every entry of the environment belongs to
\* a substituted variable.
C9_PristineKeepsOnlySubstituted ==
    (StrictDone /\ pristine /\ Len(prefixPaths) >= 1 /\ err = NilError)
    => /\ DOMAIN Map(e) = added
       /\ \A i \in DOMAIN e : EqIndex(e[i]) # 0 /\ EntryKey(e[i]) \in added

\* C10: when the seed has a variable holding the sentinel whose name is not
\* in normalized form, LoadStrict (over at least one prefix, of a store that
\* answers) fails with ExpectedKeyUnnormalizedError before any ListRaw call
\* and with the environment unchanged.
C10_UnnormalizedBeforeStoreAccess ==
    (/\ StrictDone
     /\ ListRawWorks
     /\ Len(prefixPaths) >= 1
     /\ \E k \in SentinelVars : k # normalizeEnvVarName(k))
    => /\ err.kind = "ExpectedKeyUnnormalized"
       /\ listRawCalls = 0
       /\ e = seed

\* the seed variables not holding the sentinel that a store key fetched so far
\* (under a prefix whose processing has started) normalizes to
MismatchVars ==
    { k \in DOMAIN SeedMap \ SentinelVars :
        \E i \in 1..idx : \E rv \in Fetched(prefixPaths[i]) :
            configKeyToEnvVarName(rv.Key) = k }

\* C11: when LoadStrict has fetched a store key that normalizes to a seed
\* variable whose value is not the sentinel (the sentinel variables' names
\* being normalized), it fails with StoreUnexpectedValueError; when the error
\* names such a variable it carries the variable's seed value; and every such
\* variable still has its seed value in the environment.
C11_ValueMismatch ==
    (/\ StrictDone
     /\ ListRawWorks
     /\ \A k \in SentinelVars : k = normalizeEnvVarName(k)
     /\ MismatchVars # {})
    => /\ err.kind = "StoreUnexpectedValue"
       /\ err.Key \in MismatchVars => err.ValueActual = SeedMap[err.Key]
       /\ \A k \in MismatchVars : k \in DOMAIN Map(e) /\ Map(e)[k] = SeedMap[k]

\* the variable names of an environ (the keys of its Map())
EnvNames(env) == { EntryKey(env[i]) : i \in { j \in DOMAIN env : EqIndex(env[j]) # 0 } }

\* C12: in every state of a LoadStrict, whatever the seed, the store, the
\* prefix list and the pristine setting, every entry of the environment is a
\* "name=value" entry whose name is a variable of the seed.
C12_StrictAddsNoVariable ==
    mode = "strict" =>
        /\ EnvNames(e) \subseteq EnvNames(seed)
        /\ \A i \in DOMAIN e : EqIndex(e[i]) # 0

\* a load has substituted a variable and returned no error although a fetched
\* store key normalizes to a name the seed does not have
C12_Witness ==
    /\ StrictDone
    /\ err = NilError
    /\ added # {}
    /\ \E i \in DOMAIN prefixPaths : \E rv \in Fetched(prefixPaths[i]) :
          configKeyToEnvVarName(rv.Key) \notin DOMAIN SeedMap

\* the prefixes whose processing has started
Processed == SubSeq(prefixPaths, 1, idx)

\* C22: during LoadStrict each declared variable is substituted at most once:
\* a fetched store key is checked against the value its name has in the
\* environment when it is processed, so a load that has returned no error so
\* far has met, for every name it substituted, a single store key with that
\* name under the prefixes processed (a second one fails with
\* StoreUnexpectedValueError instead of overwriting the first value).
C22_SubstitutedAtMostOnce ==
    (mode = "strict" /\ ListRawWorks /\ err = NilError) =>
        \A k \in added : Cardinality(MatchesIn(k, Processed)) <= 1

\* C23: pristine removal happens only after all prefixes have succeeded and
\* nothing is rolled back: whenever LoadStrict returns an error, every seed
\* variable name is still in the environment, and every variable that was not
\* substituted before the failure has its seed value.
C23_ErrorKeepsSeedNames ==
    (StrictDone /\ err # NilError) =>
        /\ EnvNames(seed) \subseteq EnvNames(e)
        /\ \A k \in DOMAIN SeedMap \ added : k \in DOMAIN Map(e) /\ Map(e)[k] = SeedMap[k]

(***************************************************************************)
(* Properties of Load and of the exec command                              *)
(***************************************************************************)
\* the last Load call, for prefixPaths[idx], has returned nil: seed is the
\* environ it started from, e the one it left
LoadDone == mode = "permissive" /\ idx >= 1 /\ err = NilError

\* the keys the store of the run holds below a prefix, their values, and the
\* variable name of a key once the prefix is removed
StoreHas(k) == IF backend = "ssm" THEN ssm[k] # <<>>
               ELSE IF backend = "memory" THEN mem[k] # None
               ELSE FALSE
StoredValue(k) == IF backend = "ssm" THEN Current(ssm, k).Value[1] ELSE mem[k][1].Value[1]
KeysUnder(prefix) == { k \in StoreKeys : StoreHas(k) /\ UnderPath(k, prefix) }
NameUnder(k, prefix) == normalizeEnvVarName(TrimPrefix(k, prefix))

\* C13: a Load from a prefix whose store keys, the prefix removed, normalize
\* to pairwise distinct names none of which the seed has, leaves a Map() that
\* is the seed's plus name -> store value for each key, with every seed
\* variable unchanged and an empty collision list.
C13_LoadDistinctNames ==
    (LoadDone /\ backend \in {"memory", "ssm"}) =>
        LET prefix == prefixPaths[idx]
            keys == KeysUnder(prefix)
        IN  (/\ \A k1, k2 \in keys : k1 # k2 => NameUnder(k1, prefix) # NameUnder(k2, prefix)
             /\ \A k \in keys : NameUnder(k, prefix) \notin DOMAIN Map(seed))
            => /\ DOMAIN Map(e) = DOMAIN Map(seed) \cup { NameUnder(k, prefix) : k \in keys }
               /\ \A k \in keys : Map(e)[NameUnder(k, prefix)] = StoredValue(k)
               /\ \A v \in DOMAIN Map(seed) : Map(e)[v] = Map(seed)[v]
               /\ collisions = <<>>

\* the byte values of the characters of the store keys, and the order of
\* sort.Strings on them
CharCode(c) == CASE c = "/" -> 47 [] c = "_" -> 95 [] c = "a" -> 97 [] c = "b" -> 98
                 [] c = "t" -> 116 [] c = "u" -> 117 [] OTHER -> 0
LexLess(s1, s2) ==
    \E i \in 1..(Len(s2)) :
        /\ \A j \in 1..(i - 1) : j <= Len(s1) /\ s1[j] = s2[j]
        /\ \/ i = Len(s1) + 1
           \/ i <= Len(s1) /\ CharCode(s1[i]) < CharCode(s2[i])

\* C14: a Load from the in-memory store, when exactly two store keys below
\* the prefix normalize to one name the seed does not have, leaves that
\* variable with the value of the lexicographically greater key and the name
\* exactly once in the collision list.
C14_LoadLexicographicOrder ==
    (LoadDone /\ backend = "memory") =>
        LET prefix == prefixPaths[idx]
            keys == KeysUnder(prefix)
        IN  \A k1, k2 \in keys :
              (/\ LexLess(k1, k2)
               /\ NameUnder(k1, prefix) = NameUnder(k2, prefix)
               /\ \A k3 \in keys \ {k1, k2} : NameUnder(k3, prefix) # NameUnder(k2, prefix)
               /\ NameUnder(k2, prefix) \notin DOMAIN Map(seed))
              => /\ NameUnder(k2, prefix) \in DOMAIN Map(e)
                 /\ Map(e)[NameUnder(k2, prefix)] = StoredValue(k2)
                 /\ Cardinality({ i \in DOMAIN collisions :
                                    collisions[i] = NameUnder(k2, prefix) }) = 1

\* C15: in runExec the command is launched only after the loading returned no
\* error: when Exec has been called, LoadStrict or every Load has returned nil
\* and every prefix has been listed.
C15_ExecOnlyAfterLoad ==
    pc = "exec" => /\ err = NilError
                   /\ idx = Len(prefixPaths)
                   /\ listRawCalls = Len(prefixPaths)

\* the command has been launched after a strict load that substituted a
\* variable
C15_Witness ==
    /\ pc = "exec"
    /\ mode = "strict"
    /\ added # {}
    /\ e # seed

\* C16: if ListRaw fails (as it always does on the Null backend), Load and
\* LoadStrict return an error and the environment is as it was before the
\* call.
C16_ListRawFailure ==
    /\ (backend = "null" /\ pc # "run" /\ Len(prefixPaths) >= 1) => err.kind = "ListRaw"
    /\ err.kind = "ListRaw" => e = seed

\* C16 as amended: if ListRaw fails (as it always does on the Null backend),
\* Load and LoadStrict return an error; when the failing ListRaw is the first
\* one of the call (always so for Load and on the Null backend) the
\* environment is as it was before the call.
C16_FirstListRawFailure ==
    /\ (backend = "null" /\ pc # "run" /\ Len(prefixPaths) >= 1) => err.kind = "ListRaw"
    /\ (err.kind = "ListRaw" /\ (mode = "permissive" \/ listRawCalls = 1)) => e = seed

\* a second Load has failed in ListRaw after the first one added a variable
C16_Witness ==
    /\ mode = "permissive"
    /\ err.kind = "ListRaw"
    /\ listRawCalls = 2
    /\ added # {}
    /\ e = seed

\* the name Load gives the pair rv fetched under prefix
LoadName(rv, prefix) == configKeyToEnvVarName(TrimPrefix(rv.Key, prefix))

\* positions of the pairs, loaded in the order rawValues into an environ that
\* has the names `present`, whose name is set already when they are loaded
Colliding(rawValues, prefix, present) ==
    { i \in DOMAIN rawValues :
        \/ LoadName(rawValues[i], prefix) \in present
        \/ \E j \in 1..(i - 1) :
              LoadName(rawValues[j], prefix) = LoadName(rawValues[i], prefix) }

\* C25: in a permissive load over an ordered prefix list, a name is appended
\* to the collision list exactly when it is set in the environment when it is
\* loaded (by the seed, an earlier prefix or an earlier pair of the prefix);
\* the load fails only when listing the store fails, never on a collision;
\* and a variable keeps the value loaded last for its name.
C25_Collisions ==
    /\ (mode = "permissive" /\ err # NilError) => err.kind = "ListRaw"
    /\ LoadDone =>
          \E rawValues \in RangeOrders(Fetched(prefixPaths[idx])) :
             LET prefix == prefixPaths[idx]
                 hits == Colliding(rawValues, prefix, EnvNames(seed))
             IN  /\ Len(collisions) = Cardinality(hits)
                 /\ \A i \in hits :
                       collisions[Cardinality({ j \in hits : j <= i })]
                          = LoadName(rawValues[i], prefix)
                 /\ \A i \in DOMAIN rawValues :
                       (\A j \in (i + 1)..Len(rawValues) :
                           LoadName(rawValues[j], prefix) # LoadName(rawValues[i], prefix))
                       => /\ LoadName(rawValues[i], prefix) \in DOMAIN Map(e)
                          /\ Map(e)[LoadName(rawValues[i], prefix)] = rawValues[i].Value

\* C29: LoadStrict and Load name variables the same way, on the in-memory and
\* on the SSM backend: a variable LoadStrict has filled is the name Load gives
\* a store key fetched under one of the prefixes, the prefix removed once.
C29_StrictNamesAsLoad ==
    (mode = "strict" /\ backend \in {"memory", "ssm"}) =>
        \A name \in added :
           \E i \in 1..idx : \E rv \in Fetched(prefixPaths[i]) :
              LoadName(rv, prefixPaths[i]) = name

(***************************************************************************)
(* Properties of the normalization and of the Environ primitives           *)
(***************************************************************************)
\* one character of a normalized name, as the claim words it
NormalizedChar(c) == IF c \in {"/", "-", "."} THEN "_" ELSE UpperChar(c)

\* C19: normalize(k) is k upper-cased with every "/", "-" and "." replaced
\* by "_", then without its first character when that is "_" (one character
\* at most); normalize("/k") = "K", normalize("/t/k") = "T_K" and
\* normalize("/t/p/k") = "T_P_K".
C19_Normalize ==
    call.op = "configKeyToEnvVarName" =>
        LET k == call.key
            r == call.ret
            off == IF Len(k) >= 1 /\ NormalizedChar(k[1]) = "_" THEN 1 ELSE 0
        IN  /\ Len(r) = Len(k) - off
            /\ \A i \in 1..Len(r) : r[i] = NormalizedChar(k[i + off])
            /\ k = <<"/", "k">> => r = <<"K">>
            /\ k = <<"/", "t", "/", "k">> => r = <<"T", "_", "K">>
            /\ k = <<"/", "t", "/", "p", "/", "k">> => r = <<"T", "_", "P", "_", "K">>

\* "/t/p/k" has been normalized to "T_P_K"
C19_Witness ==
    /\ call.op = "configKeyToEnvVarName"
    /\ call.key = <<"/", "t", "/", "p", "/", "k">>
    /\ call.ret = <<"T", "_", "P", "_", "K">>

\* C20: after Set(key, val) on any environ, one holding several entries for
\* key included, exactly one entry has that key, its value is val, IsSet(key)
\* is true and Map()[key] = val.
C20_SetReplaces ==
    (mode = "environ" /\ call.op = "Set") =>
        /\ Cardinality({ i \in DOMAIN e : EntryHasKey(e[i], call.key) }) = 1
        /\ \E i \in DOMAIN e : e[i] = Str(call.key, call.val)
        /\ IsSet(e, call.key)
        /\ call.key \in DOMAIN Map(e)
        /\ Map(e)[call.key] = call.val

\* number of entries of env equal to kv
Count(env, kv) == Cardinality({ i \in DOMAIN env : env[i] = kv })

\* C28: Unset(key) on an environ that has an entry whose key is key removes
\* exactly one such entry and leaves every other entry as often as it was
\* (their order may change); on an environ without such an entry it changes
\* nothing.
C28_UnsetRemovesOne ==
    [][(mode = "environ" /\ call'.op = "Unset") =>
         LET key == call'.key
             hits == { i \in DOMAIN e : EqIndex(e[i]) # 0 /\ EntryKey(e[i]) = key }
         IN  IF hits = {} THEN e' = e
             ELSE /\ Len(e') = Len(e) - 1
                  /\ \E r \in hits :
                        \A i \in DOMAIN e :
                           Count(e', e[i]) = Count(e, e[i]) - (IF e[i] = e[r] THEN 1 ELSE 0)]_vars

\* Unset has removed one of several entries of a name: the name is still set
\* after the call, next to an entry of another name
C28_Witness ==
    /\ mode = "environ"
    /\ call.op = "Unset"
    /\ IsSet(e, call.key)
    /\ \E i \in DOMAIN e : ~EntryHasKey(e[i], call.key)

\* C24: no store key satisfying the path grammar normalizes to a name that is
\* not in normalized form: normalizing the result again changes nothing, so
\* the ExpectedKeyUnnormalized guard rejects only names no store key fills.
C24_NormalizeIdempotent ==
    (call.op = "configKeyToEnvVarName" /\ validateName(call.key)) =>
        normalizeEnvVarName(call.ret) = call.ret

(***************************************************************************)
(* Properties of Get by version                                            *)
(***************************************************************************)
\* number of pages of PageSize entries that hold the first n entries
PagesFor(n) == IF n = 0 THEN 1 ELSE ((n - 1) \div PageSize) + 1

\* C26: Get(name, v) on the SSM backend, the service answering, looks at the
\* history entries in the order the service pages them and returns the first
\* entry whose description parses to v (no description, or one that is no
\* number, counting as 0); it requests the pages up to the one holding that
\* entry and no further; it returns ErrConfigNotFound when no entry matches
\* or the first matching entry has no value.
C26_GetVersion ==
    (backend = "ssm" /\ last.op = "Get" /\ last.version # -1 /\ last.fault = "none") =>
        LET hist == ssm[parameterNameToString(last.name)]
            hits == { i \in DOMAIN hist : thisVersion(hist[i]) = last.version }
        IN  IF hits = {}
            THEN /\ last.err = ErrConfigNotFound
                 /\ Len(last.calls) = PagesFor(Len(hist))
            ELSE /\ Len(last.calls) = PagesFor(Min(hits))
                 /\ IF hist[Min(hits)].Value = None
                    THEN last.err = ErrConfigNotFound
                    ELSE /\ last.err = NoErr
                         /\ last.val.Value = hist[Min(hits)].Value
                         /\ last.val.Meta.Version = last.version

(***************************************************************************)
(* Properties of List                                                      *)
(***************************************************************************)
\* C27: a List(prefix, true) of the SSM backend that returns fetches the
\* values in batches that partition the listed keys (each listed key in
\* exactly one batch, once; no batch of more than 10 keys; no other key in a
\* batch), and returns for each listed key an entry with that key's metadata
\* and that key's value; List(prefix, false) returns the same entries, every
\* value absent, without fetching.
C27_ListBatches ==
    (backend = "ssm" /\ last.op = "List" /\ last.err = NoErr) =>
        LET listed == Described(ssm, last.name.ParameterPath)
            configs == last.val.configs
            batches == last.val.batches
        IN  /\ DOMAIN configs = listed
            /\ \A k \in listed :
                  /\ configs[k].Meta.Key = k
                  /\ configs[k].Meta.Description = Current(ssm, k).Description[1]
                  /\ configs[k].Meta.Version = 1
            /\ IF last.value.includeValues
               THEN /\ \A k \in listed :
                         Cardinality({ <<b, i>> \in (DOMAIN batches) \X (1..10) :
                                         i <= Len(batches[b]) /\ batches[b][i] = k }) = 1
                    /\ \A b \in DOMAIN batches :
                         Len(batches[b]) <= 10 /\ Range(batches[b]) \subseteq listed
                    /\ \A k \in listed : configs[k].Value = Some(ListValue(k))
               ELSE /\ batches = <<>>
                    /\ \A k \in listed : configs[k].Value = None

\* a List with values of /t, which holds MaxListKeys keys (more than one
\* batch), has returned after fetching a full batch and a second one
C27_Witness ==
    /\ backend = "ssm"
    /\ last.op = "List"
    /\ last.err = NoErr
    /\ last.value.includeValues
    /\ Cardinality(DOMAIN last.val.configs) > 10
    /\ Len(last.val.batches) = 2
    /\ Len(last.val.batches[1]) = 10

(***************************************************************************)
(* Properties of the delete command                                        *)
(***************************************************************************)
\* C30: sicc delete --recursive without --force, on a store that answers,
\* returns the "Removal requires --force flag" error and leaves the contents
\* of the store as they were before the command.
C30_RecursiveWithoutForce ==
    (/\ last.op = "delete"
     /\ backend \in {"ssm", "memory"}
     /\ last.fault = "none"
     /\ validateConfigPathName(PathJoin(<<<<"/">>, last.name.ParameterPath>>))
     /\ last.value.Recursive
     /\ ~last.value.Force)
    => /\ last.err = ErrRecursiveDeleteOp
       /\ Content(backend, ssm, mem) = last.before

(***************************************************************************)
(* Properties of concurrent writers                                        *)
(***************************************************************************)
\* the version a read of the latest value stands for: 0 when the key is absent
VersionRead(current) == IF current.err = NoErr THEN current.val.Meta.Version ELSE 0

\* C21: with two clients running Put on the same key of the SSM backend, each
\* Put a read of the latest version followed by a separate overwrite, no
\* history holds two entries with the same version number, and a successful
\* Put leaves the latest version exactly 1 above the one it overwrote.
C21_ConcurrentPutVersions ==
    /\ \A k \in DOMAIN ssm : \A i, j \in 1..Len(ssm[k]) :
          i # j => thisVersion(ssm[k][i]) # thisVersion(ssm[k][j])
    /\ (backend = "ssm" /\ last.op = "Put" /\ last.err = NoErr) =>
          LET k == parameterNameToString(last.name)
          IN  thisVersion(Current(ssm, k)) = VersionRead(last.before) + 1

=============================================================================
